---- MODULE Spec2Model ----
(***************************************************************************)
(* State-machine model of the Slideshow layout class (src/src/Slideshow.js) *)
(* : the index setter, the active markers, the transition lock and its      *)
(* timers, autoplay and its timers, the event listeners, layout() and       *)
(* destroy().                                                               *)
(*                                                                          *)
(* Representation.                                                          *)
(*  - An optional array (this.elements, this.indicators) is a set that is   *)
(*    empty for undefined/null and {n} for an array of n DOM nodes; the     *)
(*    nodes of an array are the first n nodes of their kind in the DOM.     *)
(*  - A timer handle (this.transitionTimeout, this.autoplayTimeout) is      *)
(*    "undefined", "null", "pending" (the id of a timer that is still       *)
(*    scheduled) or "spent" (the id of a timer that fired or was cleared:   *)
(*    still a non-zero number, hence truthy).                               *)
(*  - timers counts the callbacks the browser still has scheduled, per      *)
(*    kind; a scheduled callback that the handle no longer refers to is     *)
(*    counted there and nowhere else.                                       *)
(*  - dom holds what the page contributes: the number of slide and          *)
(*    indicator nodes, which of them carry the "active" class (0-based      *)
(*    positions) and whether the device is a touch device.                  *)
(***************************************************************************)
EXTENDS Integers, Sequences, FiniteSets

VARIABLES this, config, dom, timers, last

vars == <<this, config, dom, timers, last>>

\* ------------------------------------------------------------------ bounds
MaxSlides == 2
MaxIndicators == 1
ReqSpan == 2
MaxTimers == 2
MaxLayouts == 2

\* -------------------------------------------------------------- constants
LeftArrow == 37
RightArrow == 39

\* ----------------------------------------------------------------- inputs
\* requested indices: up to ReqSpan steps outside the range of n slides
Requests(n) == (0 - ReqSpan)..(n - 1 + ReqSpan)
KeyCodes == {LeftArrow, RightArrow, 13}
TransitionDurations == {0, 300}
ControlsKinds == {"none", "prevnext", "all"}

\* ---------------------------------------------------------------- helpers
Truthy(handle) == handle \in {"pending", "spent"}

Length(arr) == IF arr = {} THEN 0 ELSE CHOOSE n \in arr : TRUE

Count(handlers, ev) == Cardinality({i \in 1..Len(handlers) : handlers[i] = ev})

\* the machine a handler runs on; accepted records that the index setter ran
\* past its early returns during the current operation, calls counts the
\* callbacks executeCallback invoked and logged the errors it reported
Machine ==
  [this |-> this, dom |-> dom, timers |-> timers, accepted |-> FALSE,
   calls |-> 0, logged |-> 0]

\* clearTimeout(handle): the count of scheduled callbacks after the call
clearTimeout(handle, n) == IF handle = "pending" THEN n - 1 ELSE n

\* ----------------------------------------------------------------- config
\* autoplay is config.autoplay.enabled; the documented place of the
\* interaction-end callback is config.autoplay.afterInteractionEnd, so the
\* top-level key config.afterInteractionEnd is not set
defaultConfig ==
  [loop : BOOLEAN,
   transitionDuration : TransitionDurations,
   autoplay : BOOLEAN,
   controls : ControlsKinds,
   afterInteractionEnd : {"undefined"}]

\* ------------------------------------------------------------ constructor
constructor ==
  [_index |-> 0,
   eventHandlers |-> <<>>,
   elements |-> {},
   indicators |-> {},
   isTransitioning |-> FALSE,
   transitionTimeout |-> "undefined",
   isInteracting |-> FALSE,
   autoplayTimeout |-> "undefined",
   styleNode |-> "undefined"]

\* the controller is live between a completed layout() and destroy()
Live == this.styleNode = "attached"

\* ---------------------------------------------------------------- autoplay
\* variant: the timer is cleared but the handle keeps its id
stopAutoplayKeepsHandle(s) ==
  [s EXCEPT !.timers.autoplay = clearTimeout(s.this.autoplayTimeout, @),
            !.this.autoplayTimeout = IF @ = "pending" THEN "spent" ELSE @]

stopAutoplay(s) ==
  [s EXCEPT !.timers.autoplay = clearTimeout(s.this.autoplayTimeout, @),
            !.this.autoplayTimeout = "null"]

startAutoplayUnguarded(s) ==
  IF ~config.autoplay
    THEN s
    ELSE [s EXCEPT !.timers.autoplay = @ + 1,
                   !.this.autoplayTimeout = "pending"]

startAutoplay(s) ==
  IF ~config.autoplay \/ Truthy(s.this.autoplayTimeout)
    THEN s
    ELSE [s EXCEPT !.timers.autoplay = @ + 1,
                   !.this.autoplayTimeout = "pending"]

\* ------------------------------------------------------- setActiveElement
setActiveElementAddOnly(s, index) ==
  LET n == Length(s.this.elements)
      m == Length(s.this.indicators)
      s1 == [s EXCEPT !.dom.slideActive = @ \cup ({index} \cap (0..(n - 1)))]
  IN IF s.this.indicators = {}
       THEN s1
       ELSE [s1 EXCEPT !.dom.indicatorActive = @ \cup ({index} \cap (0..(m - 1)))]

setActiveElement(s, index) ==
  LET n == Length(s.this.elements)
      m == Length(s.this.indicators)
      s1 == [s EXCEPT !.dom.slideActive =
                        (@ \ (0..(n - 1))) \cup ({index} \cap (0..(n - 1)))]
  IN IF s.this.indicators = {}
       THEN s1
       ELSE [s1 EXCEPT !.dom.indicatorActive =
                         (@ \ (0..(m - 1))) \cup ({index} \cap (0..(m - 1)))]

\* --------------------------------------------------------------- set index
afterIndexNoRestart(s) ==
  LET s1 == setActiveElement([s EXCEPT !.accepted = TRUE], s.this._index)
  IN IF config.transitionDuration # 0
       THEN [s1 EXCEPT !.this.isTransitioning = TRUE,
                       !.this.transitionTimeout = "pending",
                       !.timers.transition = @ + 1]
       ELSE s1

\* what follows the choice of this._index in the setter
afterIndex(s) ==
  LET s1 == setActiveElement([s EXCEPT !.accepted = TRUE], s.this._index)
      s2 == IF config.transitionDuration # 0
              THEN [s1 EXCEPT !.this.isTransitioning = TRUE,
                              !.this.transitionTimeout = "pending",
                              !.timers.transition = @ + 1]
              ELSE s1
  IN IF ~s2.this.isInteracting THEN startAutoplay(stopAutoplay(s2)) ELSE s2

setIndexAlwaysLoop(s, newIndex) ==
  LET n == Length(s.this.elements)
  IN IF newIndex > n - 1
       THEN afterIndex([s EXCEPT !.this._index = 0])
       ELSE IF newIndex < 0
         THEN afterIndex([s EXCEPT !.this._index = n - 1])
         ELSE afterIndex([s EXCEPT !.this._index = newIndex])

setIndexUnclamped(s, newIndex) ==
  LET n == Length(s.this.elements)
  IN IF newIndex > n - 1
       THEN IF ~config.loop THEN s ELSE afterIndex([s EXCEPT !.this._index = 0])
       ELSE IF newIndex < 0
         THEN IF ~config.loop THEN s
              ELSE afterIndex([s EXCEPT !.this._index = newIndex])
         ELSE afterIndex([s EXCEPT !.this._index = newIndex])

setIndex(s, newIndex) ==
  LET n == Length(s.this.elements)
  IN IF newIndex > n - 1
       THEN IF ~config.loop THEN s ELSE afterIndex([s EXCEPT !.this._index = 0])
       ELSE IF newIndex < 0
         THEN IF ~config.loop THEN s
              ELSE afterIndex([s EXCEPT !.this._index = n - 1])
         ELSE afterIndex([s EXCEPT !.this._index = newIndex])

getIndex(s) == s.this._index

\* ------------------------------------------------------------- event shape
\* a DOM event as the handlers read it: its type, the control its target
\* resolves to (findAncestor), the position of a clicked indicator, the key
\* code, and whether the root is in the viewport when the event arrives
Event(type, target, k, keyCode, inView) ==
  [type |-> type, target |-> target, k |-> k, keyCode |-> keyCode, inView |-> inView]

ClickTargets ==
  {Event("click", t, 0, 0, TRUE) : t \in {"previous", "next", "none"}}
    \cup {Event("click", "indicator", k, 0, TRUE) : k \in 0..(MaxIndicators - 1)}

KeyEvents == {Event("keydown", "", 0, c, v) : c \in KeyCodes, v \in BOOLEAN}

\* ------------------------------------------------------ handleControlsClick
clickResolve(s, e) ==
  IF e.target = "none"
    THEN s
    ELSE IF e.target = "previous"
      THEN setIndex(s, getIndex(s) - 1)
      ELSE IF e.target = "next"
        THEN setIndex(s, getIndex(s) + 1)
        ELSE IF e.k < Length(s.this.indicators) THEN setIndex(s, e.k) ELSE s

handleControlsClickNoLock(s, e) == clickResolve(s, e)

handleControlsClick(s, e) ==
  IF s.this.isTransitioning THEN s ELSE clickResolve(s, e)

\* ------------------------------------------------------------ handleKeydown
isInView(e) == e.inView

\* TRUE when the handler reaches e.stopImmediatePropagation()
keydownHandled(s, e) ==
  /\ ~(s.this.isTransitioning \/ ~isInView(e))
  /\ e.keyCode \in {LeftArrow, RightArrow}

handleKeydownSwapped(s, e) ==
  IF s.this.isTransitioning \/ ~isInView(e)
    THEN s
    ELSE IF e.keyCode # LeftArrow /\ e.keyCode # RightArrow
      THEN s
      ELSE IF e.keyCode = LeftArrow
        THEN setIndex(s, getIndex(s) + 1)
        ELSE setIndex(s, getIndex(s) - 1)

handleKeydown(s, e) ==
  IF s.this.isTransitioning \/ ~isInView(e)
    THEN s
    ELSE IF e.keyCode # LeftArrow /\ e.keyCode # RightArrow
      THEN s
      ELSE IF e.keyCode = RightArrow
        THEN setIndex(s, getIndex(s) + 1)
        ELSE setIndex(s, getIndex(s) - 1)

\* ------------------------------------------------- mouseover and mouseout
handleMouseover(s) ==
  stopAutoplay([s EXCEPT !.this.isInteracting = TRUE])

executeCallback(s, fn) ==
  IF fn # "function"
    THEN [s EXCEPT !.logged = @ + 1]
    ELSE [s EXCEPT !.calls = @ + 1]

handleMouseout(s) ==
  startAutoplay(executeCallback([s EXCEPT !.this.isInteracting = FALSE],
                                config.afterInteractionEnd))

\* ------------------------------------------------------------ event dispatch
\* the listeners of one event run in the order on() attached them
handler(type, s, e) ==
  CASE type = "click" -> handleControlsClick(s, e)
    [] type = "keydown" -> handleKeydown(s, e)
    [] type = "mouseover" -> handleMouseover(s)
    [] type = "mouseout" -> handleMouseout(s)
    [] OTHER -> s

RECURSIVE dispatch(_, _, _)
dispatch(s, handlers, e) ==
  IF handlers = <<>>
    THEN s
    ELSE IF Head(handlers) # e.type
      THEN dispatch(s, Tail(handlers), e)
      ELSE IF e.type = "keydown" /\ keydownHandled(s, e)
        THEN handler(e.type, s, e)
        ELSE dispatch(handler(e.type, s, e), Tail(handlers), e)

on(s, event) == [s EXCEPT !.this.eventHandlers = Append(@, event)]

\* ------------------------------------------------------------------ layout
Min(a, b) == IF a < b THEN a ELSE b

\* the page as layout() finds it: n slide nodes and m indicator nodes; a node
\* that stayed in the page keeps its class, a new node carries no marker
getElements(s, n, m) ==
  [s EXCEPT !.dom.slideActive = @ \cap (0..(Min(s.dom.n, n) - 1)),
            !.dom.indicatorActive = @ \cap (0..(Min(s.dom.m, m) - 1)),
            !.dom.n = n,
            !.dom.m = m,
            !.this.elements = {n}]

getIndicators(s) ==
  IF config.controls # "all" THEN {} ELSE {s.dom.m}

setupAutoplay(s) ==
  IF ~config.autoplay
    THEN s
    ELSE IF s.dom.touch
      THEN startAutoplay(s)
      ELSE on(on(startAutoplay(s), "mouseover"), "mouseout")

setupControls(s) ==
  IF config.controls = "none"
    THEN s
    ELSE on([s EXCEPT !.this.indicators = getIndicators(s)], "click")

setupKeydown(s) == on(s, "keydown")

\* setStyles() throws when this.styleNode is set but is no child of the root
setStylesThrows(s) == s.this.styleNode = "detached"

\* markers put on nodes that left the page are not part of the page
inPage(s) ==
  [s EXCEPT !.dom.indicatorActive = @ \cap (0..(s.dom.m - 1))]

layout(s, n, m) ==
  IF setStylesThrows(s)
    THEN [s |-> s, err |-> TRUE]
    ELSE LET s1 == [s EXCEPT !.this.styleNode = "attached"]
             s2 == getElements(s1, n, m)
             s3 == inPage(setActiveElement(s2, 0))
             s4 == setupAutoplay(s3)
             s5 == setupControls(s4)
             s6 == setupKeydown(s5)
         IN [s |-> on(s6, "resize"), err |-> FALSE]

\* ----------------------------------------------------------------- destroy
\* removing the style node throws when this.styleNode is undefined or has
\* no parent any more
destroy(s) ==
  LET s1 == stopAutoplay(s)
      s2 == [s1 EXCEPT !.timers.transition = clearTimeout(s.this.transitionTimeout, @),
                       !.this.transitionTimeout =
                          IF @ = "pending" THEN "spent" ELSE @]
      s3 == [s2 EXCEPT !.this.eventHandlers = <<>>]
  IN IF s.this.styleNode = "attached"
       THEN [s |-> [s3 EXCEPT !.this.styleNode = "detached"], err |-> FALSE]
       ELSE [s |-> s3, err |-> TRUE]

\* ------------------------------------------------------------------ actions
NoEvent == Event("", "", 0, 0, TRUE)

Within(s) ==
  /\ s.timers.transition <= MaxTimers
  /\ s.timers.autoplay <= MaxTimers

Becomes(s, op, R, e, err) ==
  \E v \in {s} :
  /\ Within(v)
  /\ this' = v.this
  /\ dom' = v.dom
  /\ timers' = v.timers
  /\ last' = [op |-> op, R |-> R, e |-> e, err |-> err,
              lock |-> this.isTransitioning, accepted |-> v.accepted,
              calls |-> v.calls, logged |-> v.logged]
  /\ UNCHANGED config

Init ==
  /\ this = constructor
  /\ config \in defaultConfig
  \* the touch capability is read by setupAutoplay only, past its early return
  /\ dom \in [n : {0}, m : {0}, slideActive : {{}}, indicatorActive : {{}},
              touch : IF config.autoplay THEN BOOLEAN ELSE {FALSE}]
  /\ timers = [transition |-> 0, autoplay |-> 0]
  /\ last = [op |-> "new", R |-> 0, e |-> NoEvent, err |-> FALSE, lock |-> FALSE,
             accepted |-> FALSE, calls |-> 0, logged |-> 0]

Layout ==
  \E n \in 0..MaxSlides, m \in 0..MaxIndicators :
    /\ Count(this.eventHandlers, "resize") < MaxLayouts
    /\ config.controls = "all" \/ m = 0
    /\ LET r == layout(Machine, n, m) IN Becomes(r.s, "layout", n, NoEvent, r.err)

Destroy ==
  \E r \in {destroy(Machine)} : Becomes(r.s, "destroy", 0, NoEvent, r.err)

\* the host assigns slideshow.index = R on a live controller (before the first
\* layout() the setter throws on this.elements.length)
SetIndex ==
  \E R \in Requests(Length(this.elements)) :
    /\ Live
    /\ Becomes(setIndex(Machine, R), "setIndex", R, NoEvent, FALSE)

Click ==
  \E e \in ClickTargets :
    /\ Count(this.eventHandlers, "click") > 0
    /\ e.target = "indicator" => e.k < Length(this.indicators)
    /\ Becomes(dispatch(Machine, this.eventHandlers, e), "click", 0, e, FALSE)

Keydown ==
  \E e \in KeyEvents :
    /\ Count(this.eventHandlers, "keydown") > 0
    /\ Becomes(dispatch(Machine, this.eventHandlers, e), "keydown", 0, e, FALSE)

Mouseover ==
  LET e == Event("mouseover", "", 0, 0, TRUE)
  IN /\ Count(this.eventHandlers, "mouseover") > 0
     /\ Becomes(dispatch(Machine, this.eventHandlers, e), "mouseover", 0, e, FALSE)

Mouseout ==
  LET e == Event("mouseout", "", 0, 0, TRUE)
  IN /\ Count(this.eventHandlers, "mouseout") > 0
     /\ Becomes(dispatch(Machine, this.eventHandlers, e), "mouseout", 0, e, FALSE)

\* a scheduled transition callback runs: the one this.transitionTimeout names
\* (named = TRUE) or an older one that was never cleared
TransitionTimeoutFires ==
  \E named \in BOOLEAN :
    /\ IF named
         THEN this.transitionTimeout = "pending"
         ELSE timers.transition > (IF this.transitionTimeout = "pending" THEN 1 ELSE 0)
    /\ Becomes([Machine EXCEPT !.timers.transition = @ - 1,
                               !.this.transitionTimeout =
                                  IF named THEN "spent" ELSE @,
                               !.this.isTransitioning = FALSE],
               "transitionTimeout", 0, NoEvent, FALSE)

\* a scheduled autoplay callback runs this.index++
AutoplayTimeoutFires ==
  \E named \in BOOLEAN :
    /\ IF named
         THEN this.autoplayTimeout = "pending"
         ELSE timers.autoplay > (IF this.autoplayTimeout = "pending" THEN 1 ELSE 0)
    /\ LET s == [Machine EXCEPT !.timers.autoplay = @ - 1,
                                !.this.autoplayTimeout =
                                   IF named THEN "spent" ELSE @]
       IN Becomes(setIndex(s, getIndex(s) + 1), "autoplayTimeout", 0, NoEvent, FALSE)

Next ==
  \/ Layout
  \/ Destroy
  \/ SetIndex
  \/ Click
  \/ Keydown
  \/ Mouseover
  \/ Mouseout
  \/ TransitionTimeoutFires
  \/ AutoplayTimeoutFires

Spec == Init /\ [][Next]_vars

\* ------------------------------------------------------------- properties
N == Length(this.elements)
M == Length(this.indicators)

\* the % operator of the source language: the remainder takes the sign of
\* the dividend
jsRem(a, b) == IF a >= 0 THEN a % b ELSE 0 - ((0 - a) % b)

WrapLaw(R, n) == jsRem(jsRem(R, n) + n, n)

OutOfRange(R, n) == R < 0 \/ R > n - 1

\* C1 (as stated): with loop=true and N >= 1, assigning any integer R to index
\* leaves index = ((R mod N) + N) mod N, also for R >= N+1 and R <= -2.
C1_WrapLawEveryRequest ==
  (last.op = "setIndex" /\ config.loop /\ N >= 1)
    => this._index = WrapLaw(last.R, N)

\* C1 (amended): with loop=true and N >= 1, assigning R with -1 <= R <= N
\* leaves index = ((R mod N) + N) mod N; any R > N-1 leaves index = 0 and any
\* R < 0 leaves index = N-1.
C1_WrapLawOneStep ==
  (last.op = "setIndex" /\ config.loop /\ N >= 1)
    => /\ (0 - 1 <= last.R /\ last.R <= N) => this._index = WrapLaw(last.R, N)
       /\ last.R > N - 1 => this._index = 0
       /\ last.R < 0 => this._index = N - 1

C1_Witness ==
  /\ last.op = "setIndex" /\ config.loop
  /\ N = 2 /\ last.R = 0 - 1 /\ this._index = 1

\* C2: with loop=false, assigning R outside [0, N-1] changes nothing: not the
\* index, not a marker of a slide or an indicator, not the transition lock,
\* not a pending transition timer or autoplay timer.
C2_RejectChangesNothing ==
  [][(last'.op = "setIndex" /\ ~config.loop /\ OutOfRange(last'.R, N))
       => (this' = this /\ dom' = dom /\ timers' = timers)]_vars

C2_Witness ==
  /\ last.op = "setIndex" /\ ~config.loop /\ ~last.accepted
  /\ N = 2 /\ last.R = 2 /\ this._index = 1
  /\ this.isTransitioning /\ timers.transition = 1 /\ timers.autoplay = 1

\* C3 (as stated): after an accepted index transition exactly one slide
\* carries the active marker and, when an indicator set is present, exactly
\* one indicator does, whatever the size of the indicator set.
C3_ExactlyOneActive ==
  (last.accepted /\ N >= 1 /\ (this.indicators # {} => M >= 1))
    => /\ Cardinality(dom.slideActive) = 1
       /\ this.indicators # {} => Cardinality(dom.indicatorActive) = 1

\* C3 (amended): after an accepted index transition slide i carries the
\* marker iff i = index (exactly one slide when N >= 1) and, when an indicator
\* set is present, indicator j carries the marker iff j = index: exactly one
\* indicator when index is below the size of the indicator set, none otherwise.
C3_ActiveIsIndex ==
  last.accepted
    => /\ dom.slideActive = {this._index} \cap (0..(N - 1))
       /\ N >= 1 => Cardinality(dom.slideActive) = 1
       /\ this.indicators # {}
            => /\ dom.indicatorActive = {this._index} \cap (0..(M - 1))
               /\ Cardinality(dom.indicatorActive) =
                    (IF 0 <= this._index /\ this._index < M THEN 1 ELSE 0)

C3_Witness ==
  /\ last.accepted /\ last.op = "click" /\ last.e.target = "indicator"
  /\ this.indicators # {} /\ N = 2 /\ M = 1
  /\ dom.slideActive = {0} /\ dom.indicatorActive = {0}

\* C4: in every reachable state of a live controller with N >= 1 slides,
\* whatever assignments, clicks, keys, autoplay firings and re-layouts came
\* before, index is within [0, N-1].
C4_IndexInBounds ==
  (Live /\ N >= 1) => (0 <= this._index /\ this._index <= N - 1)

\* C5: with N = 0 an index assignment, a control click and a key press change
\* neither the index nor the transition lock nor a timer, for either loop.
C5_NoSlidesNoOp ==
  [][(Live /\ N = 0 /\ last'.op \in {"setIndex", "click", "keydown"})
       => /\ this'._index = this._index
          /\ this'.isTransitioning = this.isTransitioning
          /\ this'.transitionTimeout = this.transitionTimeout
          /\ this'.autoplayTimeout = this.autoplayTimeout
          /\ timers' = timers]_vars

\* C6: right after a layout() that returned, with N >= 1, index reads 0,
\* slide 0 is the only active slide and, with a non-empty indicator set,
\* indicator 0 is the only active indicator.
C6_LayoutActivatesZero ==
  (last.op = "layout" /\ ~last.err /\ N >= 1)
    => /\ this._index = 0
       /\ dom.slideActive = {0}
       /\ (this.indicators # {} /\ M >= 1) => dom.indicatorActive = {0}

\* C7: after destroy() no transition timer and no autoplay timer is pending
\* and no listener is attached.
C7_DestroyLeavesNothingPending ==
  last.op = "destroy"
    => /\ timers.transition = 0
       /\ timers.autoplay = 0
       /\ this.eventHandlers = <<>>

\* C8: destroy() raises no error, also when it is called a second time or
\* before layout() ran.
C8_DestroyNeverThrows ==
  last.op = "destroy" => ~last.err

\* C9: while the transition lock is set, a click on a control and a key-down
\* event change nothing: not the index, not a marker, not a timer.
C9_LockedInputChangesNothing ==
  [][(this.isTransitioning /\ last'.op \in {"click", "keydown"})
       => (this' = this /\ dom' = dom /\ timers' = timers)]_vars

C9_Witness ==
  /\ last.op = "click" /\ last.lock /\ last.e.target = "next"
  /\ this.isTransitioning /\ N = 2 /\ this._index = 0

\* C10: at most one autoplay timer is pending in every reachable state, and
\* starting autoplay twice in a row gives the state that starting it once
\* gives.
C10_OneAutoplayTimer ==
  /\ timers.autoplay <= 1
  /\ startAutoplay(startAutoplay(Machine)) = startAutoplay(Machine)

C10_Witness ==
  /\ last.op = "mouseout" /\ Count(this.eventHandlers, "mouseout") = 2
  /\ this.autoplayTimeout = "pending" /\ timers.autoplay = 1

\* the index a request for index + d ends at under the loop rules: past the
\* last slide it is 0 with loop and unchanged without, below 0 it is N-1 with
\* loop and unchanged without
StepRule(index, d, n) ==
  IF index + d > n - 1
    THEN IF config.loop THEN 0 ELSE index
    ELSE IF index + d < 0
      THEN IF config.loop THEN n - 1 ELSE index
      ELSE index + d

\* C11: with autoplay enabled, N >= 1 and no interaction, a firing of the
\* autoplay timer leaves index at index+1 under the loop rules (N-1 wraps to 0
\* with loop, stays without) and, when the advance is accepted, leaves exactly
\* one autoplay timer pending, the one the handle names.
C11_AutoplayStepsOnce ==
  [][(last'.op = "autoplayTimeout" /\ config.autoplay /\ N >= 1
        /\ ~this.isInteracting)
       => /\ this'._index = StepRule(this._index, 1, N)
          /\ last'.accepted
               => (timers'.autoplay = 1 /\ this'.autoplayTimeout = "pending")
          /\ last'.accepted <=> (config.loop \/ this._index + 1 <= N - 1)]_vars

C11_Witness ==
  /\ last.op = "autoplayTimeout" /\ last.accepted /\ config.loop
  /\ ~this.isInteracting /\ N = 2 /\ this._index = 0 /\ dom.slideActive = {0}
  /\ timers.autoplay = 1 /\ this.autoplayTimeout = "pending"

\* C12: on a non-touch device with autoplay enabled, a mouseover while an
\* autoplay timer is pending cancels it and sets the interaction flag; the
\* mouseout that follows clears the flag, invokes the configured
\* afterInteractionEnd callback of autoplay exactly once and leaves exactly
\* one autoplay timer pending.
C12_InteractionCycle ==
  [][/\ (last'.op = "mouseover" /\ timers.autoplay = 1)
          => (this'.isInteracting /\ timers'.autoplay = 0)
     /\ (last'.op = "mouseout" /\ last.op = "mouseover")
          => /\ ~this'.isInteracting
             /\ last'.calls = 1
             /\ timers'.autoplay = 1]_vars

\* C13: at most one transition-lock-clear timer is pending in every reachable
\* state.
C13_OneTransitionTimer ==
  timers.transition <= 1

\* C14: with transitionDuration > 0, as long as the clear timer scheduled by
\* the latest index change has not fired, the transition lock is set.
C14_LockedWhileLatestTimerPending ==
  (config.transitionDuration # 0 /\ this.transitionTimeout = "pending")
    => this.isTransitioning

\* C15: on a key-down event with the transition lock clear and the root in
\* view, the left arrow requests index-1 and the right arrow index+1, each
\* under the loop rules, and another key changes nothing; with the root out
\* of view every key changes nothing.
C15_ArrowKeys ==
  [][(last'.op = "keydown" /\ ~this.isTransitioning)
       => IF last'.e.inView /\ last'.e.keyCode = LeftArrow
            THEN this'._index = StepRule(this._index, 0 - 1, N)
            ELSE IF last'.e.inView /\ last'.e.keyCode = RightArrow
              THEN this'._index = StepRule(this._index, 1, N)
              ELSE this' = this /\ dom' = dom /\ timers' = timers]_vars

C15_Witness ==
  /\ last.op = "keydown" /\ ~last.lock /\ last.accepted
  /\ last.e.inView /\ last.e.keyCode = LeftArrow
  /\ config.loop /\ N = 2 /\ this._index = 1 /\ dom.slideActive = {1}
  /\ Count(this.eventHandlers, "keydown") = 2

\* C16: in every reachable state of a live controller with N >= 1, slide i
\* carries the active marker iff i equals the value read from index.
C16_ActiveSlideIsIndex ==
  (Live /\ N >= 1) => dom.slideActive = {getIndex(Machine)}

\* C17: with N >= 1 slides the stored autoplay handle is non-null iff an
\* autoplay timer is pending.
C17_HandleMatchesTimer ==
  N >= 1 => (Truthy(this.autoplayTimeout) <=> timers.autoplay >= 1)

\* C18: while the interaction flag is set no autoplay timer is pending.
C18_NoTimerWhileInteracting ==
  this.isInteracting => timers.autoplay = 0

\* C20: one click on the next (previous) control with the transition lock
\* unset moves the index by exactly one step forward (back), however many
\* layout() passes have registered listeners.
C20_ClickStepsOnce ==
  [][(last'.op = "click" /\ last'.e.target \in {"next", "previous"}
        /\ ~this.isTransitioning /\ N >= 1)
       => this'._index =
            StepRule(this._index, IF last'.e.target = "next" THEN 1 ELSE 0 - 1, N)]_vars

\* ---- autoplay under fair timers -------------------------------------------
\* The page is laid out once with autoplay and loop configured, nobody hovers
\* the root and destroy() is not called; clicks, key presses and assignments
\* arrive at any time. A browser runs every pending timer callback, which is
\* the weak fairness of the two timer actions.
FairSlides == 3

FairInit ==
  /\ Init
  /\ config.autoplay
  /\ config.loop

FairLayout ==
  \E n \in 1..FairSlides, m \in 0..MaxIndicators :
    /\ ~Live
    /\ config.controls = "all" \/ m = 0
    /\ LET r == layout(Machine, n, m) IN Becomes(r.s, "layout", n, NoEvent, r.err)

\* an input leaves one timer slot free for the transition the next autoplay
\* firing schedules
FairSetIndex == SetIndex /\ timers'.transition < MaxTimers

FairClick == Click /\ timers'.transition < MaxTimers

FairKeydown == Keydown /\ timers'.transition < MaxTimers

FairNext ==
  \/ FairLayout
  \/ FairSetIndex
  \/ FairClick
  \/ FairKeydown
  \/ TransitionTimeoutFires
  \/ AutoplayTimeoutFires

FairSpec ==
  /\ FairInit
  /\ [][FairNext]_vars
  /\ WF_vars(TransitionTimeoutFires)
  /\ WF_vars(AutoplayTimeoutFires)

====
